---- MODULE Spec2Model ----
(***************************************************************************)
(* A model of juju/client/facade.py: the schema-to-client generator and    *)
(* the runtime support it emits (lookup_facade, TypeFactory, ReturnMapping,*)
(* Type.from_json).                                                        *)
(*                                                                         *)
(* Python strings whose characters matter (class names, wire names) are    *)
(* sequences of one-character strings; Python exceptions are records       *)
(* [kind |-> "raise", exc |-> <exception class>].                          *)
(***************************************************************************)
EXTENDS Integers, Sequences, FiniteSets, TLC

VARIABLES
    CLIENTS,    \* _client.py CLIENTS: version -> names defined in _client<version>.py
    rtOp,       \* the runtime-support or build call in progress and its outcome
    retCls,     \* per facade method, the cls variable closed over by ReturnMapping's wrapper
    calls,      \* facade method calls: awaiting their reply, or completed with their result
    bundle,     \* the schemas handed to the generator (as indices of SchemaPool), in processing order
    _types,     \* _types (TypeRegistry)
    _registry,  \* _registry (KindRegistry)
    CLASSES,    \* CLASSES
    factories,  \* factories (the capture of the TypeFactory classes)
    run,        \* the generator run in progress: position, captures of this run
    runs,       \* generator runs started so far in this process
    outputs     \* what each completed run emitted

rtVars == <<CLIENTS, rtOp, retCls, calls>>
genVars == <<bundle, _types, _registry, CLASSES, factories, run, runs, outputs>>
vars == <<rtVars, genVars>>

(***************************************************************************)
(* Bounds of the model.                                                    *)
(***************************************************************************)
MaxVersion == 3
MaxFields == 2       \* most fields of a generated struct
MaxPayloadKeys == 2  \* most keys of a payload handed to from_json
MaxCalls == 3        \* most facade method calls of one behaviour
MaxSchemas == 2      \* most schemas of a bundle
MaxRuns == 2         \* most generator runs of one process

(***************************************************************************)
(* Strings.                                                                *)
(***************************************************************************)
FacadeSuffix == <<"F", "a", "c", "a", "d", "e">>

\* str.endswith
EndsWith(s, suffix) ==
    /\ Len(s) >= Len(suffix)
    /\ SubSeq(s, Len(s) - Len(suffix) + 1, Len(s)) = suffix

\* s[:-n]
DropLast(s, n) == SubSeq(s, 1, Len(s) - n)

Raise(exc) == [kind |-> "raise", exc |-> exc]
None == [kind |-> "None"]

(***************************************************************************)
(* Naming: name_to_py and the two maps of Args.                            *)
(***************************************************************************)
UpperChars == <<"A","B","C","D","E","F","G","H","I","J","K","L","M",
                "N","O","P","Q","R","S","T","U","V","W","X","Y","Z">>
LowerChars == <<"a","b","c","d","e","f","g","h","i","j","k","l","m",
                "n","o","p","q","r","s","t","u","v","w","x","y","z">>
DigitChars == {"0","1","2","3","4","5","6","7","8","9"}

\* str.lower on one character
LowerChar(c) ==
    IF \E i \in DOMAIN UpperChars : UpperChars[i] = c
    THEN LowerChars[CHOOSE i \in DOMAIN UpperChars : UpperChars[i] = c]
    ELSE c

\* keyword.kwlist
PyKeywords == {
    <<"F","a","l","s","e">>, <<"N","o","n","e">>, <<"T","r","u","e">>, <<"a","n","d">>, <<"a","s">>,
    <<"a","s","s","e","r","t">>, <<"a","s","y","n","c">>, <<"a","w","a","i","t">>,
    <<"b","r","e","a","k">>, <<"c","l","a","s","s">>, <<"c","o","n","t","i","n","u","e">>,
    <<"d","e","f">>, <<"d","e","l">>, <<"e","l","i","f">>, <<"e","l","s","e">>,
    <<"e","x","c","e","p","t">>, <<"f","i","n","a","l","l","y">>, <<"f","o","r">>,
    <<"f","r","o","m">>, <<"g","l","o","b","a","l">>, <<"i","f">>, <<"i","m","p","o","r","t">>,
    <<"i","n">>, <<"i","s">>, <<"l","a","m","b","d","a">>, <<"n","o","n","l","o","c","a","l">>,
    <<"n","o","t">>, <<"o","r">>, <<"p","a","s","s">>, <<"r","a","i","s","e">>,
    <<"r","e","t","u","r","n">>, <<"t","r","y">>, <<"w","h","i","l","e">>, <<"w","i","t","h">>,
    <<"y","i","e","l","d">>
}

\* dir(builtins): the entries without capitals (the candidate is lowercased)
PyBuiltins == {
    <<"_","_","b","u","i","l","d","_","c","l","a","s","s","_","_">>,
    <<"_","_","d","e","b","u","g","_","_">>, <<"_","_","d","o","c","_","_">>,
    <<"_","_","i","m","p","o","r","t","_","_">>, <<"_","_","l","o","a","d","e","r","_","_">>,
    <<"_","_","n","a","m","e","_","_">>, <<"_","_","p","a","c","k","a","g","e","_","_">>,
    <<"_","_","s","p","e","c","_","_">>, <<"a","b","s">>, <<"a","i","t","e","r">>, <<"a","l","l">>,
    <<"a","n","e","x","t">>, <<"a","n","y">>, <<"a","s","c","i","i">>, <<"b","i","n">>,
    <<"b","o","o","l">>, <<"b","r","e","a","k","p","o","i","n","t">>,
    <<"b","y","t","e","a","r","r","a","y">>, <<"b","y","t","e","s">>,
    <<"c","a","l","l","a","b","l","e">>, <<"c","h","r">>,
    <<"c","l","a","s","s","m","e","t","h","o","d">>, <<"c","o","m","p","i","l","e">>,
    <<"c","o","m","p","l","e","x">>, <<"c","o","p","y","r","i","g","h","t">>,
    <<"c","r","e","d","i","t","s">>, <<"d","e","l","a","t","t","r">>, <<"d","i","c","t">>,
    <<"d","i","r">>, <<"d","i","v","m","o","d">>, <<"e","n","u","m","e","r","a","t","e">>,
    <<"e","v","a","l">>, <<"e","x","e","c">>, <<"e","x","i","t">>, <<"f","i","l","t","e","r">>,
    <<"f","l","o","a","t">>, <<"f","o","r","m","a","t">>, <<"f","r","o","z","e","n","s","e","t">>,
    <<"g","e","t","a","t","t","r">>, <<"g","l","o","b","a","l","s">>,
    <<"h","a","s","a","t","t","r">>, <<"h","a","s","h">>, <<"h","e","l","p">>, <<"h","e","x">>,
    <<"i","d">>, <<"i","n","p","u","t">>, <<"i","n","t">>,
    <<"i","s","i","n","s","t","a","n","c","e">>, <<"i","s","s","u","b","c","l","a","s","s">>,
    <<"i","t","e","r">>, <<"l","e","n">>, <<"l","i","c","e","n","s","e">>, <<"l","i","s","t">>,
    <<"l","o","c","a","l","s">>, <<"m","a","p">>, <<"m","a","x">>,
    <<"m","e","m","o","r","y","v","i","e","w">>, <<"m","i","n">>, <<"n","e","x","t">>,
    <<"o","b","j","e","c","t">>, <<"o","c","t">>, <<"o","p","e","n">>, <<"o","r","d">>,
    <<"p","o","w">>, <<"p","r","i","n","t">>, <<"p","r","o","p","e","r","t","y">>,
    <<"q","u","i","t">>, <<"r","a","n","g","e">>, <<"r","e","p","r">>,
    <<"r","e","v","e","r","s","e","d">>, <<"r","o","u","n","d">>, <<"s","e","t">>,
    <<"s","e","t","a","t","t","r">>, <<"s","l","i","c","e">>, <<"s","o","r","t","e","d">>,
    <<"s","t","a","t","i","c","m","e","t","h","o","d">>, <<"s","t","r">>, <<"s","u","m">>,
    <<"s","u","p","e","r">>, <<"t","u","p","l","e">>, <<"t","y","p","e">>, <<"v","a","r","s">>,
    <<"z","i","p">>
}

\* keyword.iskeyword(result) or result in dir(builtins)
IsReservedNever(result) == FALSE
IsReserved(result) == result \in PyKeywords \/ result \in PyBuiltins

name_to_py(name) ==
    LET replaced == [i \in DOMAIN name |-> IF name[i] = "-" THEN "_" ELSE name[i]]
        result == [i \in DOMAIN replaced |-> LowerChar(replaced[i])]
    IN  IF IsReserved(result) THEN result \o <<"_">> ELSE result

\* dict assignment m[k] = v
MapPut(m, k, v) == [x \in DOMAIN m \cup {k} |-> IF x = k THEN v ELSE m[x]]
EmptyMap == [x \in {} |-> x]
\* dict.get(k, default)
MapGet(m, k, default) == IF k \in DOMAIN m THEN m[k] ELSE default

\* Args: a list of (wire name, type) pairs; do_explode is False for every
\* kind a registered struct holds (basic, TypeVar, Sequence, Mapping)
Args(rtypes) == rtypes

RECURSIVE PyToSchemaLoop(_, _)
PyToSchemaLoop(args, m) ==
    IF args = <<>> THEN m
    ELSE PyToSchemaLoop(Tail(args), MapPut(m, name_to_py(Head(args)[1]), Head(args)[1]))
PyToSchemaMapping(args) == PyToSchemaLoop(args, EmptyMap)

RECURSIVE SchemaToPyLoop(_, _)
SchemaToPyLoop(args, m) ==
    IF args = <<>> THEN m
    ELSE SchemaToPyLoop(Tail(args), MapPut(m, Head(args)[1], name_to_py(Head(args)[1])))
SchemaToPyMapping(args) == SchemaToPyLoop(args, EmptyMap)

(***************************************************************************)
(* buildTypes: the class generated for one registered struct.              *)
(***************************************************************************)
SelfName == <<"s","e","l","f">>
UnknownFieldsName == <<"u","n","k","n","o","w","n","_","f","i","e","l","d","s">>

IsIdentifier(s) ==
    /\ s # <<>>
    /\ s[1] \notin DigitChars
    /\ \A i \in DOMAIN s :
          \/ s[i] = "_"
          \/ s[i] \in DigitChars
          \/ \E j \in DOMAIN LowerChars : s[i] = LowerChars[j] \/ s[i] = UpperChars[j]

\* the parameter list of the generated __init__: self, <arg>=None ..., **unknown_fields
InitParams(args) ==
    <<SelfName>> \o [i \in DOMAIN args |-> name_to_py(args[i][1])] \o <<UnknownFieldsName>>

\* compile(source, __name__, "exec"): a def with a repeated parameter name, or a
\* parameter that is no identifier, is a SyntaxError
CompilesAlways(args) == TRUE
Compiles(args) ==
    LET params == InitParams(args)
    IN  /\ \A i \in DOMAIN params : IsIdentifier(params[i])
        /\ \A i, j \in DOMAIN params : i # j => params[i] # params[j]

\* one iteration of the buildTypes loop, from Args(kind) to CLASSES[name] = cls
BuildClass(name, rtypes) ==
    LET args == Args(rtypes)
    IN  IF ~Compiles(args) THEN Raise("SyntaxError")
        ELSE [kind |-> "class", name |-> name,
              toSchema |-> PyToSchemaMapping(args),
              toPy |-> SchemaToPyMapping(args),
              args |-> args]

(***************************************************************************)
(* Python values: [t |-> "None"], [t |-> "int", n], [t |-> "str", s],      *)
(* [t |-> "dict", items |-> <<key, value>> pairs in insertion order],      *)
(* [t |-> "list", elems], [t |-> "inst", cls, attrs, unknown].             *)
(***************************************************************************)
PyNone == [t |-> "None"]
PyInt(n) == [t |-> "int", n |-> n]
PyStr(s) == [t |-> "str", s |-> s]
PyDict(pairs) == [t |-> "dict", items |-> pairs]
PyList(items) == [t |-> "list", elems |-> items]
PyRaise(exc) == [t |-> "raise", exc |-> exc]

\* bool(v) is False
Falsy(v) ==
    \/ v.t = "None"
    \/ v.t = "int" /\ v.n = 0
    \/ v.t = "str" /\ v.s = ""
    \/ v.t = "dict" /\ v.items = <<>>
    \/ v.t = "list" /\ v.elems = <<>>

\* json.loads on the strings of the model
JsonLoads(s) ==
    CASE s = "{}" -> PyDict(<<>>)
      [] s = "null" -> PyNone
      [] s = "7" -> PyInt(7)
      [] OTHER -> PyRaise("JSONDecodeError")

\* the first raised exception of a sequence of values, if any
RECURSIVE FirstRaise(_)
FirstRaise(vals) ==
    IF vals = <<>> THEN PyNone
    ELSE IF Head(vals).t = "raise" THEN Head(vals) ELSE FirstRaise(Tail(vals))

\* d = {}; for k, v in items: d[cls._toPy.get(k, k)] = v
RECURSIVE ToPyDict(_, _, _)
ToPyDict(cls, items, d) ==
    IF items = <<>> THEN d
    ELSE ToPyDict(cls, Tail(items),
                  MapPut(d, MapGet(cls.toPy, Head(items)[1], Head(items)[1]), Head(items)[2]))

\* the body of a generated __init__ with no args is "pass": nothing is stored
StoreUnknownAlways(args, unknown_fields) == [set |-> TRUE, v |-> unknown_fields]
StoreUnknown(args, unknown_fields) ==
    IF args = <<>> THEN [set |-> FALSE] ELSE [set |-> TRUE, v |-> unknown_fields]

RECURSIVE from_json(_, _, _), Construct(_, _, _), ConvertArg(_, _, _)

\* the assignment the generated __init__ makes for one argument
ConvertArg(classes, rtype, value) ==
    CASE rtype.k = "ref" ->
            IF Falsy(value) THEN PyNone ELSE from_json(classes, classes[rtype.name], value)
      [] rtype.k = "seq" /\ rtype.elem.k = "ref" ->
            LET seq == IF Falsy(value) THEN <<>> ELSE value.elems
                out == [i \in DOMAIN seq |->
                           from_json(classes, classes[rtype.elem.name], seq[i])]
            IN  IF value.t \notin {"None", "list"} /\ ~Falsy(value) THEN PyRaise("TypeError")
                ELSE IF FirstRaise(out).t = "raise" THEN FirstRaise(out)
                ELSE PyList(out)
      [] OTHER -> value

\* cls(**d) for a generated class
Construct(classes, cls, d) ==
    LET args == cls.args
        locals == {name_to_py(args[i][1]) : i \in DOMAIN args}
        vals == [i \in DOMAIN args |->
                    ConvertArg(classes, args[i][2], MapGet(d, name_to_py(args[i][1]), PyNone))]
        unknown_fields == [k \in DOMAIN d \ locals |-> d[k]]
    IN  IF SelfName \in DOMAIN d THEN PyRaise("TypeError")
        ELSE IF FirstRaise(vals).t = "raise" THEN FirstRaise(vals)
        ELSE [t |-> "inst", cls |-> cls.name,
              attrs |-> [l \in locals |->
                            vals[CHOOSE i \in DOMAIN args : name_to_py(args[i][1]) = l]],
              unknown |-> StoreUnknown(args, unknown_fields)]

\* Type.from_json
from_json(classes, cls, data) ==
    IF data.t = "inst" /\ data.cls = cls.name THEN data
    ELSE LET loaded == IF data.t = "str" THEN JsonLoads(data.s) ELSE data
         IN  IF loaded.t = "raise" THEN loaded
             ELSE IF ~Falsy(loaded) /\ loaded.t # "dict" THEN PyRaise("AttributeError")
             ELSE LET items == IF Falsy(loaded) THEN <<>> ELSE loaded.items
                  IN  Construct(classes, cls, ToPyDict(cls, items, EmptyMap))

(***************************************************************************)
(* Runtime support: lookup_facade and TypeFactory.from_connection.         *)
(***************************************************************************)
\* range(start, stop, -1) as the sequence of values it yields
RECURSIVE RangeDown(_, _)
RangeDown(start, stop) ==
    IF start <= stop THEN <<>> ELSE <<start>> \o RangeDown(start - 1, stop)

\* range(int(version), 0, -1)
VersionRangeSkipsOne(version) == RangeDown(version, 1)
VersionRange(version) == RangeDown(version, 0)

\* getattr(CLIENTS[str(_version)], name): KeyError / AttributeError / the class
GetFacadeAttr(clients, v, name) ==
    IF v \notin DOMAIN clients THEN Raise("KeyError")
    ELSE IF name \notin clients[v] THEN Raise("AttributeError")
    ELSE [kind |-> "class", name |-> name, version |-> v]

\* the for/else loop of lookup_facade over the remaining versions
RECURSIVE LookupLoop(_, _, _)
LookupLoop(clients, name, versions) ==
    IF versions = <<>> THEN Raise("ImportError")
    ELSE LET facade == GetFacadeAttr(clients, Head(versions), name)
         IN  IF facade.kind = "class" THEN facade
             ELSE LookupLoop(clients, name, Tail(versions))

lookup_facade(clients, name, version) ==
    LookupLoop(clients, name, VersionRange(version))

\* Type.connect: stores the handle, nothing else
ConnectIssuesRequest(inst, connection) ==
    [inst EXCEPT !.connection = connection.id, !.requests = <<"connect">>]
Connect(inst, connection) ==
    [inst EXCEPT !.connection = connection.id]

\* connection.facades.get(facade_name)
FacadesGet(connection, facade_name) ==
    IF facade_name \in DOMAIN connection.facades
    THEN [kind |-> "int", value |-> connection.facades[facade_name]] ELSE None

\* TypeFactory.from_connection(cls, connection); facadesRead records whether
\* connection.facades was consulted, requests what was sent on the connection
from_connection(clients, clsName, connection) ==
    IF ~EndsWith(clsName, FacadeSuffix)
    THEN [result |-> Raise("TypeError"), facadesRead |-> FALSE, requests |-> <<>>]
    ELSE LET facade_name == DropLast(clsName, Len(FacadeSuffix))
             version == FacadesGet(connection, facade_name)
         IN  IF version = None
             THEN [result |-> Raise("Exception"), facadesRead |-> TRUE, requests |-> <<>>]
             ELSE LET c == lookup_facade(clients, clsName, version.value)
                  IN  IF c.kind = "raise"
                      THEN [result |-> c, facadesRead |-> TRUE, requests |-> <<>>]
                      ELSE LET inst == Connect([kind |-> "instance", cls |-> c,
                                                connection |-> "unbound",
                                                requests |-> <<>>], connection)
                           IN  [result |-> [kind |-> "instance", cls |-> inst.cls,
                                            connection |-> inst.connection],
                                facadesRead |-> TRUE,
                                requests |-> inst.requests]

(***************************************************************************)
(* ReturnMapping(cls): the wrapper around a facade method.  A reply is a   *)
(* dict, here its <<key, value>> pairs in order.  cls is [k |-> "None"],   *)
(* [k |-> "class", name], [k |-> "seq", elem] or [k |-> "scalar", name].   *)
(***************************************************************************)
NoneCls == [k |-> "None"]
ClassCls(name) == [k |-> "class", name |-> name]
SeqCls(elem) == [k |-> "seq", elem |-> elem]
ScalarCls(name) == [k |-> "scalar", name |-> name]

ErrorName == <<"E","r","r","o","r">>

\* key in reply
HasKey(reply, key) == \E i \in DOMAIN reply : reply[i][1] = key
\* reply[key]
GetItem(reply, key) ==
    IF HasKey(reply, key)
    THEN reply[CHOOSE i \in DOMAIN reply : reply[i][1] = key][2]
    ELSE PyRaise("KeyError")

\* issubclass(cls, typing.Sequence): str is a Sequence, a generated class is not
IsSequence(cls) == cls.k = "seq" \/ (cls.k = "scalar" /\ cls.name = "str")

\* the wrapper from the reply on; yields the returned value and the value cls
\* is left with (cls is nonlocal: the assignment writes the closure)
Wrapper(classes, cls, reply) ==
    IF cls = NoneCls THEN [result |-> [t |-> "raw", reply |-> reply], cls |-> cls]
    ELSE LET cls1 == IF HasKey(reply, "error") THEN ClassCls(ErrorName) ELSE cls
             result ==
                 IF IsSequence(cls1)
                 THEN IF cls1.k = "scalar" THEN PyRaise("AttributeError")
                      ELSE LET out == [i \in DOMAIN reply |->
                                          from_json(classes, classes[cls1.elem],
                                                    PyStr(reply[i][1]))]
                           IN  IF FirstRaise(out).t = "raise" THEN FirstRaise(out)
                               ELSE PyList(out)
                 ELSE IF cls1.k = "scalar" THEN PyRaise("AttributeError")
                 ELSE IF GetItem(reply, "response").t = "raise"
                 THEN GetItem(reply, "response")
                 ELSE from_json(classes, classes[cls1.name], GetItem(reply, "response"))
         IN  [result |-> result, cls |-> cls1]

(***************************************************************************)
(* The generated classes the runtime specifications run against.           *)
(***************************************************************************)
IntT == [k |-> "basic", name |-> "int"]
StrT == [k |-> "basic", name |-> "str"]
RefT(name) == [k |-> "ref", name |-> name]

BarName == <<"B","a","r">>
FooName == <<"F","o","o">>
EmptyName == <<"E","m","p","t","y">>
wC == <<"C">>
wLS == <<"L","-","S">>
wX == <<"X">>
wB == <<"B">>
wCode == <<"C","o","d","e">>

BarStruct == << <<wC, IntT>>, <<wLS, IntT>> >>
FooStruct == << <<wB, RefT(BarName)>>, <<wC, IntT>> >>
ErrorStruct == << <<wCode, IntT>> >>
EmptyStruct == <<>>

RuntimeClasses ==
    [n \in {BarName, FooName, ErrorName, EmptyName} |->
        CASE n = BarName -> BuildClass(n, BarStruct)
          [] n = FooName -> BuildClass(n, FooStruct)
          [] n = ErrorName -> BuildClass(n, ErrorStruct)
          [] OTHER -> BuildClass(n, EmptyStruct)]

\* the methods of the facade under call and the result type each declares
Methods == {"Get", "List", "Name", "Ping"}
Declared ==
    [m \in Methods |->
        CASE m = "Get" -> ClassCls(BarName)
          [] m = "List" -> SeqCls(BarName)
          [] m = "Name" -> ScalarCls("str")
          [] OTHER -> NoneCls]

CallIds == 1..MaxCalls
NoCalls == [id \in CallIds |-> [state |-> "none"]]

(***************************************************************************)
(* The generator.  String order (sorted), references, the two registries.  *)
(***************************************************************************)
\* the characters of the model in code-point order
CodePointOrder ==
    <<"#", "$", "*", "-", ".", "/", "0", "1", "2", "3", "4", "5", "6", "7", "8", "9">>
    \o UpperChars \o <<"_">> \o LowerChars \o <<"~">>
CodePoint(c) == CHOOSE i \in DOMAIN CodePointOrder : CodePointOrder[i] = c

\* a < b for Python strings
RECURSIVE StrLess(_, _)
StrLess(a, b) ==
    IF b = <<>> THEN FALSE
    ELSE IF a = <<>> THEN TRUE
    ELSE IF Head(a) # Head(b) THEN CodePoint(Head(a)) < CodePoint(Head(b))
    ELSE StrLess(Tail(a), Tail(b))

\* sorted(S) for a set of strings
RECURSIVE Sorted(_)
Sorted(S) ==
    IF S = {} THEN <<>>
    ELSE LET first == CHOOSE x \in S : \A y \in S \ {x} : StrLess(x, y)
         IN  <<first>> \o Sorted(S \ {first})

DefinitionsPrefix == <<"#", "/", "d", "e", "f", "i", "n", "i", "t", "i", "o", "n", "s", "/">>

StartsWith(s, prefix) ==
    Len(s) >= Len(prefix) /\ SubSeq(s, 1, Len(prefix)) = prefix

\* ref.rsplit("/", 1)[-1]
AfterLastSlash(s) ==
    IF \E i \in DOMAIN s : s[i] = "/"
    THEN LET last == CHOOSE i \in DOMAIN s :
                         s[i] = "/" /\ \A j \in DOMAIN s : s[j] = "/" => j <= i
         IN  SubSeq(s, last + 1, Len(s))
    ELSE s

\* Schema.referenceName
referenceName(ref) ==
    IF StartsWith(ref, DefinitionsPrefix) THEN AfterLastSlash(ref) ELSE ref

\* a get that made a new TypeVar on every lookup
TypesGetAlwaysNew(types, name) ==
    LET refname == referenceName(name)
        result == Cardinality(DOMAIN types.byVar) + 1
    IN  [types |-> [byName |-> MapPut(types.byName, refname, result),
                    byVar |-> MapPut(types.byVar, result, refname)],
         var |-> result]

\* TypeRegistry.get on _types = [byName : refname -> TypeVar, byVar : TypeVar -> refname];
\* a TypeVar is the number of its creation; yields the registry and the TypeVar
TypesGet(types, name) ==
    LET refname == referenceName(name)
    IN  IF refname \in DOMAIN types.byName
        THEN [types |-> types, var |-> types.byName[refname]]
        ELSE LET result == Cardinality(DOMAIN types.byVar) + 1
             IN  [types |-> [byName |-> MapPut(types.byName, refname, result),
                             byVar |-> MapPut(types.byVar, result, refname)],
                  var |-> result]

\* the name a TypeVar prints as (its __name__), which the generated code refers to
TypeVarT(types, var) == [k |-> "ref", name |-> types.byVar[var]]

AnyT == [k |-> "any"]
SeqT(elem) == [k |-> "seq", elem |-> elem]
MapT(value) == [k |-> "map", value |-> value]
FloatT == [k |-> "basic", name |-> "float"]
BoolT == [k |-> "basic", name |-> "bool"]

\* SCHEMA_TO_PYTHON
SCHEMA_TO_PYTHON ==
    [kind \in {"string", "integer", "float", "number", "boolean", "object"} |->
        CASE kind = "string" -> StrT
          [] kind = "integer" -> IntT
          [] kind = "float" -> FloatT
          [] kind = "number" -> FloatT
          [] kind = "boolean" -> BoolT
          [] OTHER -> AnyT]

\* a build step's outcome: exc is "" unless an exception left the step
Ok(val, types) == [exc |-> "", val |-> val, types |-> types]
Failed(exc, types) == [exc |-> exc, val |-> <<>>, types |-> types]

\* the element of a singleton; Only({e(x) : x \in {v}}) is e with x naming the
\* value v, computed once
Only(S) == CHOOSE x \in S : TRUE

\* objType
objType(obj, types) ==
    IF "type" \notin DOMAIN obj THEN Failed("ValueError", types)
    ELSE IF obj.type \notin DOMAIN SCHEMA_TO_PYTHON THEN Failed("ValueError", types)
    ELSE Ok(SCHEMA_TO_PYTHON[obj.type], types)

\* refType: getRefType(obj["$ref"])
refType(obj, types) ==
    Only({Ok(TypeVarT(got.types, got.var), got.types) :
            got \in {TypesGet(types, obj.ref)}})

\* Schema.buildArray
RECURSIVE buildArray(_, _)
buildArray(obj, types) ==
    IF "ref" \in DOMAIN obj
    THEN Only({Ok(SeqT(r.val), r.types) : r \in {refType(obj, types)}})
    ELSE IF "type" \in DOMAIN obj /\ obj.type = "array"
    THEN IF "items" \notin DOMAIN obj THEN Failed("KeyError", types)
         ELSE buildArray(obj.items, types)
    ELSE Only({IF r.exc # "" THEN r ELSE Ok(SeqT(r.val), r.types) :
                 r \in {objType(obj, types)}})

\* Schema.buildObject: the loop over sorted(props), then patternProperties and
\* additionalProperties
RECURSIVE buildObject(_, _, _), BuildProps(_, _, _, _)

\* the loop body for the property Head(names), then the rest of the loop
BuildProps(props, names, struct, types) ==
    IF names = <<>> THEN Ok(struct, types)
    ELSE LET p == Head(names)
             prop == props[p]
         IN  Only({IF r.exc # "" THEN r
                   ELSE BuildProps(props, Tail(names), r.val, r.types) :
                 r \in {IF "ref" \in DOMAIN prop
                        THEN Only({Ok(Append(struct, <<p, t.val>>), t.types) :
                                     t \in {refType(prop, types)}})
                        ELSE IF "type" \notin DOMAIN prop THEN Failed("KeyError", types)
                        ELSE IF prop.type = "array"
                        THEN Only({IF t.exc # "" THEN t
                                   ELSE Ok(Append(struct, <<p, t.val>>), t.types) :
                                     t \in {buildArray(prop, types)}})
                        ELSE IF prop.type = "object"
                        THEN Only({IF t.exc # "" THEN t
                                   ELSE Ok(struct \o t.val, t.types) :
                                     t \in {buildObject(prop, p, types)}})
                        ELSE Only({IF t.exc # "" THEN t
                                   ELSE Ok(Append(struct, <<p, t.val>>), t.types) :
                                     t \in {objType(prop, types)}})}})

WildcardKey == <<".", "*">>

\* sorted(props)
PropOrder(props) == Sorted(DOMAIN props)

\* s1 is the struct after the properties, s2 after the patternProperties
buildObject(node, name, types) ==
    LET props == IF "properties" \in DOMAIN node THEN node.properties ELSE EmptyMap
        pprops == IF "patternProperties" \in DOMAIN node
                  THEN node.patternProperties ELSE EmptyMap
    IN  Only({
          IF s1.exc # "" THEN s1
          ELSE IF DOMAIN pprops # {} /\ WildcardKey \notin DOMAIN pprops
          THEN Failed("ValueError", s1.types)
          ELSE IF DOMAIN pprops # {} /\ "ref" \in DOMAIN pprops[WildcardKey]
          THEN Only({Ok(Append(s1.val, <<name, MapT(t.val)>>), t.types) :
                       t \in {refType(pprops[WildcardKey], s1.types)}})
          ELSE Only({
                 IF s2.exc # "" THEN s2
                 ELSE IF s2.val = <<>> /\ "additionalProperties" \in DOMAIN node
                                      /\ node.additionalProperties
                 THEN Ok(<<<<name, MapT(SCHEMA_TO_PYTHON["object"])>>>>, s2.types)
                 ELSE s2 :
                 s2 \in {IF DOMAIN pprops = {} THEN s1
                         ELSE IF "type" \notin DOMAIN pprops[WildcardKey]
                         THEN Failed("KeyError", s1.types)
                         ELSE IF pprops[WildcardKey].type = "array"
                         THEN Only({IF t.exc # "" THEN t
                                    ELSE Ok(Append(s1.val, <<name, t.val>>), t.types) :
                                      t \in {buildArray(pprops[WildcardKey], s1.types)}})
                         ELSE IF pprops[WildcardKey].type \notin DOMAIN SCHEMA_TO_PYTHON
                         THEN Failed("KeyError", s1.types)
                         ELSE Ok(Append(s1.val,
                                   <<name, MapT(SCHEMA_TO_PYTHON[pprops[WildcardKey].type])>>),
                                 s1.types)}}) :
          s1 \in {IF DOMAIN props # {}
                  THEN BuildProps(props, PropOrder(props), <<>>, types)
                  ELSE Ok(<<>>, types)}})

(***************************************************************************)
(* KindRegistry (_registry): name -> (version -> registered struct).       *)
(***************************************************************************)
NAUGHTY_CLASSES ==
    { <<"C","l","i","e","n","t","F","a","c","a","d","e">>,
      <<"C","l","i","e","n","t">>,
      <<"F","u","l","l","S","t","a","t","u","s">>,
      <<"M","o","d","e","l","S","t","a","t","u","s","I","n","f","o">>,
      <<"M","o","d","e","l","I","n","f","o">>,
      <<"A","p","p","l","i","c","a","t","i","o","n","D","e","p","l","o","y">> }

\* KindRegistry.register: self[name] = {version: {"object": obj}}
Register(reg, name, version, obj) ==
    MapPut(reg, name, MapPut(EmptyMap, version, obj))

\* max(versions)
MaxKey(versions) == CHOOSE v \in DOMAIN versions : \A w \in DOMAIN versions : w <= v

\* KindRegistry.getObj(name): [some |-> FALSE] stands for None
getObj(reg, name) ==
    IF name \notin DOMAIN reg \/ DOMAIN reg[name] = {}
    THEN [some |-> FALSE]
    ELSE [some |-> TRUE, obj |-> reg[name][MaxKey(reg[name])]]

(***************************************************************************)
(* Schema.buildDefinitions.  A schema is [name, version, definitions,      *)
(* properties]; definitions are <<name, node>> pairs in the order the      *)
(* dict yields them.                                                       *)
(***************************************************************************)
HasDefinition(schema, name) ==
    \E i \in DOMAIN schema.definitions : schema.definitions[i][1] = name
Definition(schema, name) ==
    schema.definitions[CHOOSE i \in DOMAIN schema.definitions :
                           schema.definitions[i][1] = name][2]

\* the loop of buildDefinitions from definition i on; st holds _types, _registry
\* and the local variable result (bound says whether it was assigned yet)
RECURSIVE DefinitionsLoop(_, _, _)
DefinitionsLoop(schema, i, st) ==
    IF i > Len(schema.definitions) THEN st
    ELSE LET d == schema.definitions[i][1]
             data == schema.definitions[i][2]
         IN  IF d \in DOMAIN st.registry /\ d \notin NAUGHTY_CLASSES
             THEN DefinitionsLoop(schema, i + 1, st)
             ELSE IF "ref" \in DOMAIN data
                     /\ ~HasDefinition(schema, referenceName(data.ref))
             THEN [st EXCEPT !.exc = "KeyError"]
             ELSE LET node == IF "ref" \in DOMAIN data
                              THEN Definition(schema, referenceName(data.ref))
                              ELSE data
                      kind == IF "type" \in DOMAIN node THEN node.type ELSE "None"
                  IN  Only({
                        LET result == IF kind = "object"
                                      THEN [bound |-> TRUE, obj |-> built.val]
                                      ELSE st.result
                        IN  IF built.exc # ""
                            THEN [st EXCEPT !.exc = built.exc, !.types = built.types]
                            ELSE IF ~result.bound
                            THEN [st EXCEPT !.exc = "UnboundLocalError",
                                            !.types = built.types]
                            ELSE DefinitionsLoop(schema, i + 1,
                                     [exc |-> "",
                                      types |-> TypesGet(built.types, d).types,
                                      registry |-> Register(st.registry, d,
                                                            schema.version, result.obj),
                                      result |-> result]) :
                        built \in {IF kind = "object"
                                   THEN buildObject(node, d, st.types)
                                   ELSE Ok(<<>>, st.types)}})

buildDefinitions(schema, types, registry) ==
    DefinitionsLoop(schema, 1,
        [exc |-> "", types |-> types, registry |-> registry, result |-> [bound |-> FALSE]])

(***************************************************************************)
(* buildTypes(schema, capture).  A capture maps a name to the text written *)
(* under it; the text of a class is the class BuildClass describes.        *)
(***************************************************************************)
\* make_factory(name): the (re)written factory text
make_factory(facs, name) == MapPut(facs, name, [factory |-> name])

\* the loop of buildTypes over the remaining names; st holds capture, CLASSES,
\* factories
RECURSIVE TypesLoop(_, _, _)
TypesLoop(names, registry, st) ==
    IF names = <<>> THEN st
    ELSE LET name == Head(names)
         IN  IF name \in DOMAIN st.capture /\ name \notin NAUGHTY_CLASSES
             THEN TypesLoop(Tail(names), registry, st)
             ELSE Only({
                    IF ~rtypes.some THEN [st EXCEPT !.exc = "TypeError"]
                    ELSE Only({
                           IF cls.kind = "raise"
                           THEN [written EXCEPT !.exc = cls.exc]
                           ELSE TypesLoop(Tail(names), registry,
                                    [written EXCEPT
                                        !.classes = MapPut(st.classes, name, cls)]) :
                           cls \in {BuildClass(name, rtypes.obj)},
                           written \in {[st EXCEPT
                               !.factories = make_factory(st.factories, name),
                               !.capture = MapPut(st.capture, name,
                                   [class |-> name, args |-> Args(rtypes.obj)])]}}) :
                    rtypes \in {getObj(registry, name)}})

\* sorted((k for k in _types if not isinstance(k, str)), key=str), by name
TypeVarOrder(types) == Sorted({types.byVar[v] : v \in DOMAIN types.byVar})

buildTypes(capture, types, registry, classes, facs) ==
    TypesLoop(TypeVarOrder(types), registry,
        [exc |-> "", capture |-> capture, classes |-> classes, factories |-> facs])

(***************************************************************************)
(* Facades: buildFacade, buildMethods, _buildMethod, makeFunc, retspec.    *)
(***************************************************************************)
\* sub in s
Contains(s, sub) ==
    \E i \in 1..(Len(s) - Len(sub) + 1) : SubSeq(s, i, i + Len(sub) - 1) = sub

\* retspec(defs), for the result a method spec resolved to
retspec(result, types, registry) ==
    IF result.k = "None" THEN [exc |-> "", res |-> [k |-> "None"]]
    ELSE IF result.k = "basic" THEN [exc |-> "", res |-> result]
    ELSE IF result.k # "ref" THEN [exc |-> "KeyError", res |-> [k |-> "None"]]
    ELSE LET rtypes == getObj(registry, result.name)
         IN  IF ~rtypes.some \/ rtypes.obj = <<>> THEN [exc |-> "", res |-> [k |-> "None"]]
             ELSE IF Len(rtypes.obj) > 1
             THEN [exc |-> "",
                   res |-> [k |-> "union",
                            alts |-> [i \in DOMAIN rtypes.obj |-> rtypes.obj[i][2]]]]
             ELSE [exc |-> "", res |-> rtypes.obj[1][2]]

\* _buildMethod + makeFunc for one method: the method's text, or the exception;
\* p and r are the TypeVars of Params and Result (var 0: there is none)
BuildMethod(schema, name, types, registry) ==
    LET method == schema.properties[name]
        badKind == /\ "Result" \in DOMAIN method
                   /\ "ref" \notin DOMAIN method.Result
                   /\ method.Result.type \notin DOMAIN SCHEMA_TO_PYTHON
    IN  Only({
          Only({
            LET result == IF "Result" \notin DOMAIN method THEN [k |-> "None"]
                          ELSE IF r.var # 0 THEN TypeVarT(r.types, r.var)
                          ELSE IF badKind THEN [k |-> "None"]
                          ELSE SCHEMA_TO_PYTHON[method.Result.type]
            IN  Only({
                  [exc |-> IF badKind THEN "KeyError"
                           ELSE IF ~params.some THEN "TypeError"
                           ELSE IF res.exc # "" THEN res.exc
                           ELSE IF ~Compiles(IF params.some THEN Args(params.obj)
                                             ELSE <<>>)
                           THEN "SyntaxError"
                           ELSE IF result.k = "ref" /\ result.name \notin DOMAIN registry
                           THEN "NameError"
                           ELSE "",
                   types |-> IF badKind THEN p.types ELSE r.types,
                   text |-> [method |-> name,
                             args |-> IF params.some THEN Args(params.obj) ELSE <<>>,
                             res |-> res.res, rettype |-> result]] :
                  params \in {IF p.var # 0 THEN getObj(registry, r.types.byVar[p.var])
                              ELSE [some |-> TRUE, obj |-> <<>>]},
                  res \in {retspec(result, r.types, registry)}}) :
            r \in {IF "Result" \in DOMAIN method /\ "ref" \in DOMAIN method.Result
                   THEN TypesGet(p.types, method.Result.ref)
                   ELSE [types |-> p.types, var |-> 0]}}) :
          p \in {IF "Params" \in DOMAIN method
                 THEN TypesGet(types, method.Params.ref)
                 ELSE [types |-> types, var |-> 0]}})

\* the loop of buildMethods over the remaining method names
RECURSIVE MethodsLoop(_, _, _, _)
MethodsLoop(schema, names, registry, st) ==
    IF names = <<>> THEN st
    ELSE Only({IF m.exc # "" THEN [st EXCEPT !.exc = m.exc, !.types = m.types]
               ELSE MethodsLoop(schema, Tail(names), registry,
                        [st EXCEPT !.types = m.types,
                                   !.methods = Append(st.methods, m.text)]) :
                 m \in {BuildMethod(schema, Head(names), st.types, registry)}})

buildMethods(schema, types, registry) ==
    MethodsLoop(schema, Sorted(DOMAIN schema.properties), registry,
                [exc |-> "", types |-> types, methods |-> <<>>])

(***************************************************************************)
(* Emission: write_facades, write_definitions, write_client.               *)
(***************************************************************************)
\* the texts of a capture under its keys that do (or do not) contain "Facade"
FacadeKeys(capture) == {k \in DOMAIN capture : Contains(k, FacadeSuffix)}
TextsOf(capture, keys) ==
    LET order == Sorted(keys) IN [i \in DOMAIN order |-> capture[order[i]]]

\* sorted(captures.keys())[-1], the version write_facades returns
LastVersion(captures) == CHOOSE v \in DOMAIN captures : \A w \in DOMAIN captures : w <= v

write_facades(captures) ==
    [v \in DOMAIN captures |-> TextsOf(captures[v], FacadeKeys(captures[v]))]

write_definitions(captures, version) ==
    TextsOf(captures[version], DOMAIN captures[version] \ FacadeKeys(captures[version]))

write_client(order, facs) ==
    [clients |-> order, factories |-> TextsOf(facs, FacadeKeys(facs))]

(***************************************************************************)
(* The module-level state of facade.py before any generator run.           *)
(***************************************************************************)
NoTypes == [byName |-> EmptyMap, byVar |-> EmptyMap]
IdleRun == [pc |-> "idle", idx |-> 0, captures |-> EmptyMap, order |-> <<>>]

FreshModule ==
    /\ _types = NoTypes
    /\ _registry = EmptyMap
    /\ CLASSES = EmptyMap
    /\ factories = EmptyMap
    /\ run = IdleRun
    /\ runs = 0
    /\ outputs = <<>>

GeneratorNotRun == bundle = <<>> /\ FreshModule

(***************************************************************************)
(* Inputs of the runtime-support specification.                            *)
(***************************************************************************)
Versions == 1..MaxVersion
AFacade == <<"A">> \o FacadeSuffix
BFacade == <<"B">> \o FacadeSuffix
FacadeClassNames == {AFacade, BFacade}
\* requesting type names: well-formed, suffix missing, suffix not last, bare suffix
RequestNames == FacadeClassNames \cup {<<"A">>, FacadeSuffix \o <<"A">>, FacadeSuffix}
BaseNames == {<<"A">>, <<"B">>}
ConnectionIds == {"conn1", "conn2"}

ClientTables ==
    UNION {[D -> SUBSET FacadeClassNames] : D \in SUBSET Versions}
FacadeTables ==
    UNION {[D -> 0..MaxVersion] : D \in SUBSET BaseNames}
Connections == [id : ConnectionIds, facades : FacadeTables]

InitLookup ==
    /\ CLIENTS \in ClientTables
    /\ rtOp = [op |-> "idle"]
    /\ retCls = Declared
    /\ calls = NoCalls
    /\ GeneratorNotRun

DoLookupFacade ==
    \E name \in FacadeClassNames, version \in -1..(MaxVersion + 1) :
        /\ rtOp.op = "idle"
        /\ rtOp' = [op |-> "lookup_facade", name |-> name, version |-> version,
                    result |-> lookup_facade(CLIENTS, name, version)]
        /\ UNCHANGED <<CLIENTS, retCls, calls, genVars>>

DoFromConnection ==
    \E clsName \in RequestNames, connection \in Connections :
        /\ rtOp.op = "idle"
        /\ rtOp' = [op |-> "from_connection", cls |-> clsName,
                    connection |-> connection,
                    out |-> from_connection(CLIENTS, clsName, connection)]
        /\ UNCHANGED <<CLIENTS, retCls, calls, genVars>>

\* the caller takes the outcome; the next call may start
ReturnToCaller ==
    /\ rtOp.op # "idle"
    /\ rtOp' = [op |-> "idle"]
    /\ UNCHANGED <<CLIENTS, retCls, calls, genVars>>

NextLookup == DoLookupFacade \/ DoFromConnection \/ ReturnToCaller

SpecLookup == InitLookup /\ [][NextLookup]_vars

(***************************************************************************)
(* C1: lookup_facade(name, v) returns the facade registered for name at    *)
(* the highest version <= v (and >= 1) at which name is registered, and    *)
(* raises the lookup failure (ImportError) when there is no such version,  *)
(* in particular for every v <= 0.                                         *)
(***************************************************************************)
RegisteredAt(name) == {v \in DOMAIN CLIENTS : name \in CLIENTS[v]}
Candidates(name, version) == {v \in RegisteredAt(name) : v >= 1 /\ v <= version}

C1_LookupHighestBelow ==
    rtOp.op = "lookup_facade" =>
        LET cands == Candidates(rtOp.name, rtOp.version)
        IN  IF cands = {}
            THEN rtOp.result = Raise("ImportError")
            ELSE /\ rtOp.result.kind = "class"
                 /\ rtOp.result.name = rtOp.name
                 /\ rtOp.result.version \in cands
                 /\ \A v \in cands : v <= rtOp.result.version

\* the spec's example: versions {1,3} registered, v=2 falls back to version 1
C1_Witness ==
    /\ rtOp.op = "lookup_facade"
    /\ RegisteredAt(rtOp.name) = {1, 3}
    /\ rtOp.version = 2
    /\ rtOp.result.kind = "class"
    /\ rtOp.result.version = 1

(***************************************************************************)
(* C4: from_connection (1) raises the naming error without reading the     *)
(* connection's version table when the requesting type's name lacks the    *)
(* suffix "Facade"; (2) otherwise raises the lookup failure when the table *)
(* has no entry for the name with the suffix stripped; (3) otherwise       *)
(* returns an instance of the class lookup_facade resolves for the         *)
(* negotiated version, bound to exactly the given connection.  No request  *)
(* is issued on the connection in any case.                                *)
(***************************************************************************)
C4_FromConnection ==
    rtOp.op = "from_connection" =>
        LET cls == rtOp.cls
            conn == rtOp.connection
            out == rtOp.out
            base == DropLast(cls, Len(FacadeSuffix))
        IN  /\ out.requests = <<>>
            /\ IF ~EndsWith(cls, FacadeSuffix)
               THEN out.result = Raise("TypeError") /\ ~out.facadesRead
               ELSE IF base \notin DOMAIN conn.facades
               THEN out.result = Raise("Exception")
               ELSE LET resolved == lookup_facade(CLIENTS, cls, conn.facades[base])
                    IN  IF resolved.kind = "class"
                        THEN out.result = [kind |-> "instance", cls |-> resolved,
                                           connection |-> conn.id]
                        ELSE out.result = resolved

\* a facade bound through version fallback: negotiated 3, resolved class at 2
C4_Witness ==
    /\ rtOp.op = "from_connection"
    /\ rtOp.cls = AFacade
    /\ rtOp.connection.id = "conn2"
    /\ <<"A">> \in DOMAIN rtOp.connection.facades
    /\ rtOp.connection.facades[<<"A">>] = 3
    /\ rtOp.out.result.kind = "instance"
    /\ rtOp.out.result.cls.version = 2
    /\ rtOp.out.result.connection = "conn2"

(***************************************************************************)
(* Specification of type building and payload decoding: buildTypes on one  *)
(* struct, Type.from_json on one payload.                                  *)
(***************************************************************************)
wLifeStatus == <<"L","i","f","e","-","S","t","a","t","u","s">>
WireNamePool ==
    { wLifeStatus,
      <<"l","i","f","e","_","s","t","a","t","u","s">>,
      <<"I","d">>, <<"i","d">>, <<"i","d","_">>,
      <<"c","l","a","s","s">>,
      wC, <<"c">>, SelfName, <<"a",".","b">> }
StructPool ==
    UNION {[1..n -> {<<w, IntT>> : w \in WireNamePool}] : n \in 0..MaxFields}

PayloadKeys == {wC, wLS, wX, wB, <<"c">>, SelfName}
NestedPayload == PyDict(<< <<wC, PyInt(7)>>, <<wX, PyInt(0)>> >>)
PayloadValues == {PyInt(7), PyInt(0), NestedPayload}
PayloadDicts ==
    {PyDict(pairs) : pairs \in
        {q \in UNION {[1..n -> PayloadKeys \X PayloadValues] : n \in 0..MaxPayloadKeys} :
            \A i, j \in DOMAIN q : i # j => q[i][1] # q[j][1]}}
Payloads ==
    PayloadDicts \cup {PyNone, PyInt(7), PyList(<<>>), PyStr("{}"), PyStr("response")}

InitTypes ==
    /\ CLIENTS = <<>>
    /\ rtOp = [op |-> "idle"]
    /\ retCls = Declared
    /\ calls = NoCalls
    /\ GeneratorNotRun

DoBuildClass ==
    \E name \in {BarName}, rtypes \in StructPool :
        /\ rtOp.op = "idle"
        /\ rtOp' = [op |-> "buildTypes", name |-> name, rtypes |-> rtypes,
                    cls |-> BuildClass(name, rtypes)]
        /\ UNCHANGED <<CLIENTS, retCls, calls, genVars>>

DoFromJson ==
    \E cls \in DOMAIN RuntimeClasses, data \in Payloads :
        /\ rtOp.op = "idle"
        /\ rtOp' = [op |-> "from_json", cls |-> cls, data |-> data,
                    result |-> from_json(RuntimeClasses, RuntimeClasses[cls], data)]
        /\ UNCHANGED <<CLIENTS, retCls, calls, genVars>>

NextTypes == DoBuildClass \/ DoFromJson \/ ReturnToCaller

SpecTypes == InitTypes /\ [][NextTypes]_vars

(***************************************************************************)
(* C5: constructing a typed value from a payload with keys absent from the *)
(* type's schema does not fail, every such key is retained with its value  *)
(* in the value's unknown_fields, and known keys are stored under their    *)
(* local names -- for every generated type, one without fields included.   *)
(***************************************************************************)
\* the payload gives every reference-typed field a dict (or nothing)
WellShaped(cls, pairs) ==
    \A i \in DOMAIN pairs : \A a \in DOMAIN cls.args :
        (cls.args[a][1] = pairs[i][1] /\ cls.args[a][2].k = "ref")
            => pairs[i][2].t = "dict"

\* no payload key is spelled like a parameter of the generated constructor
NoParamAlias(cls, pairs) ==
    \A i \in DOMAIN pairs :
        pairs[i][1] \notin DOMAIN cls.toSchema /\ pairs[i][1] # SelfName

C5_UnknownFieldsRetained ==
    (rtOp.op = "from_json" /\ rtOp.data.t = "dict"
        /\ WellShaped(RuntimeClasses[rtOp.cls], rtOp.data.items)
        /\ NoParamAlias(RuntimeClasses[rtOp.cls], rtOp.data.items)) =>
        LET cls == RuntimeClasses[rtOp.cls]
            pairs == rtOp.data.items
            r == rtOp.result
        IN  /\ r.t = "inst"
            /\ \A i \in DOMAIN pairs :
                  IF pairs[i][1] \in DOMAIN cls.toPy
                  THEN /\ cls.toPy[pairs[i][1]] \in DOMAIN r.attrs
                       /\ \A a \in DOMAIN cls.args :
                             (cls.args[a][1] = pairs[i][1] /\ cls.args[a][2].k = "basic")
                                 => r.attrs[cls.toPy[pairs[i][1]]] = pairs[i][2]
                  ELSE /\ r.unknown.set
                       /\ pairs[i][1] \in DOMAIN r.unknown.v
                       /\ r.unknown.v[pairs[i][1]] = pairs[i][2]

BarPayload == PyDict(<< <<wC, PyInt(7)>> >>)
Replies ==
    { << <<"response", BarPayload>> >>,
      << <<"response", NestedPayload>> >>,
      << <<"response", PyList(<<BarPayload, NestedPayload>>)>> >>,
      << <<"error", PyStr("boom")>>, <<"response", PyDict(<< <<wCode, PyInt(7)>> >>)>> >>,
      << <<"error", PyStr("boom")>> >>,
      <<>> }

InitDecode ==
    /\ CLIENTS = <<>>
    /\ rtOp = [op |-> "idle"]
    /\ retCls = Declared
    /\ calls = NoCalls
    /\ GeneratorNotRun

\* a caller invokes method m: the request is sent and the call awaits its reply
Call ==
    \E id \in CallIds, m \in Methods :
        /\ calls[id].state = "none"
        /\ \A earlier \in 1..(id - 1) : calls[earlier].state # "none"
        /\ calls' = [calls EXCEPT ![id] = [state |-> "awaiting", method |-> m]]
        /\ UNCHANGED <<CLIENTS, rtOp, retCls, genVars>>

\* the reply of an awaiting call arrives and the wrapper runs to its return
Reply ==
    \E id \in CallIds, reply \in Replies :
        /\ calls[id].state = "awaiting"
        /\ LET m == calls[id].method
               w == Wrapper(RuntimeClasses, retCls[m], reply)
           IN  /\ calls' = [calls EXCEPT ![id] =
                               [state |-> "done", method |-> m, reply |-> reply,
                                result |-> w.result]]
               /\ retCls' = [retCls EXCEPT ![m] = w.cls]
        /\ UNCHANGED <<CLIENTS, rtOp, genVars>>

NextDecode == Call \/ Reply

SpecDecode == InitDecode /\ [][NextDecode]_vars

DoneCalls == {id \in CallIds : calls[id].state = "done"}

(***************************************************************************)
(* C2: whatever result type the method declares (a class, a sequence, a    *)
(* scalar or none at all), a reply with an error field is decoded as the   *)
(* Error type: never returned raw, never decoded as the declared type.     *)
(***************************************************************************)
C2_ErrorPrecedence ==
    \A id \in DoneCalls :
        HasKey(calls[id].reply, "error") =>
            LET r == calls[id].result
            IN  /\ r.t # "raw"
                /\ r.t # "list"
                /\ r.t = "inst" => r.cls = ErrorName

(***************************************************************************)
(* C3: the result of every call is determined by its own reply and the     *)
(* declared result type of its method alone, whatever other calls of the   *)
(* method were answered before it or are still awaiting.                   *)
(***************************************************************************)
C3_CallsIndependent ==
    \A id \in DoneCalls :
        calls[id].result =
            Wrapper(RuntimeClasses, Declared[calls[id].method], calls[id].reply).result

(***************************************************************************)
(* C6: a reply without an error field is decoded, for a Sequence result    *)
(* type, as the list of the elements of the response payload each passed   *)
(* alone through the element type's from_json; for any other result type   *)
(* as the response payload passed through the type's from_json.            *)
(***************************************************************************)
C6_DecodeByShape ==
    \A id \in DoneCalls :
        LET reply == calls[id].reply
            cls == Declared[calls[id].method]
            payload == GetItem(reply, "response")
        IN  (~HasKey(reply, "error") /\ HasKey(reply, "response")) =>
                CASE cls.k = "seq" /\ payload.t = "list" ->
                        calls[id].result =
                            PyList([i \in DOMAIN payload.elems |->
                                from_json(RuntimeClasses, RuntimeClasses[cls.elem],
                                          payload.elems[i])])
                  [] cls.k = "class" /\ payload.t = "dict" ->
                        calls[id].result =
                            from_json(RuntimeClasses, RuntimeClasses[cls.name], payload)
                  [] OTHER -> TRUE

(***************************************************************************)
(* Specification of the generator: main() run up to MaxRuns times in one   *)
(* process on the same bundle.  One step is one iteration of a loop of     *)
(* generate_facades, or the three writes of main.                          *)
(***************************************************************************)
DefRef(name) == [ref |-> DefinitionsPrefix \o name]
nA == <<"A">>
nB == <<"B">>
nC == <<"C">>
nL == <<"L">>
nClient == <<"C","l","i","e","n","t">>
nGet == <<"G","e","t">>

ObjA == [type |-> "object",
         properties |-> (<<"x">> :> [type |-> "string"] @@ <<"b">> :> DefRef(nB))]
ObjB == [type |-> "object", properties |-> (<<"a">> :> DefRef(nA))]
ObjC == [type |-> "object", properties |-> (<<"c">> :> [type |-> "integer"])]
ArrL == [type |-> "array", items |-> DefRef(nC)]
ClientX == [type |-> "object", properties |-> (<<"x">> :> [type |-> "integer"])]
ClientY == [type |-> "object", properties |-> (<<"y">> :> [type |-> "integer"])]

GetAB == (nGet :> [Params |-> DefRef(nA), Result |-> DefRef(nB)])
GetC == (nGet :> [Result |-> DefRef(nC)])
GetInt == (nGet :> [Result |-> [type |-> "integer"]])

SchemaPool ==
    << [name |-> <<"F">>, version |-> 1,
        definitions |-> << <<nA, ObjA>>, <<nB, ObjB>> >>, properties |-> GetAB],
       [name |-> <<"F">>, version |-> 2,
        definitions |-> << <<nA, ObjA>>, <<nB, ObjB>> >>, properties |-> GetAB],
       [name |-> <<"G">>, version |-> 1,
        definitions |-> << <<nC, ObjC>> >>, properties |-> GetC],
       [name |-> <<"G">>, version |-> 2,
        definitions |-> << <<nC, ObjC>> >>, properties |-> GetC],
       [name |-> <<"H">>, version |-> 2,
        definitions |-> << <<nC, ObjC>>, <<nL, ArrL>> >>, properties |-> GetC],
       [name |-> <<"H">>, version |-> 1,
        definitions |-> << <<nL, ArrL>>, <<nC, ObjC>> >>, properties |-> GetC],
       [name |-> <<"K">>, version |-> 2,
        definitions |-> << <<nClient, ClientX>> >>, properties |-> GetInt],
       [name |-> <<"K">>, version |-> 1,
        definitions |-> << <<nClient, ClientY>> >>, properties |-> GetInt] >>

\* the bundles: up to MaxSchemas different schemas of the pool, in any order
Bundles ==
    {q \in UNION {[1..n -> DOMAIN SchemaPool] : n \in 1..MaxSchemas} :
        \A i, j \in DOMAIN q : i # j => q[i] # q[j]}
SchemaAt(i) == SchemaPool[bundle[i]]

InitGen ==
    /\ CLIENTS = <<>>
    /\ rtOp = [op |-> "idle"]
    /\ retCls = Declared
    /\ calls = NoCalls
    /\ bundle \in Bundles
    /\ FreshModule

\* captures[version] of a defaultdict: the capture, created on first use
CaptureOf(r, version) ==
    IF version \in DOMAIN r.captures THEN r.captures[version] ELSE EmptyMap
WithCapture(r, version, capture) ==
    [r EXCEPT !.captures = MapPut(r.captures, version, capture),
              !.order = IF version \in DOMAIN r.captures THEN r.order
                        ELSE Append(r.order, version)]

\* where the run stands after iteration idx of the loop pc
Advance(r) ==
    IF r.idx < Len(bundle) THEN [r EXCEPT !.idx = r.idx + 1]
    ELSE IF r.pc = "types" THEN [r EXCEPT !.pc = "facades", !.idx = 1]
    ELSE [r EXCEPT !.pc = "emit", !.idx = 0]
Crashed(r, exc) == [r EXCEPT !.pc = "crashed", !.idx = 0]

\* main() is entered: generate_facades starts with fresh captures
GenStart ==
    /\ run.pc \in {"idle", "crashed"}
    /\ runs < MaxRuns
    /\ runs' = runs + 1
    /\ run' = [pc |-> "types", idx |-> 1, captures |-> EmptyMap, order |-> <<>>]
    /\ UNCHANGED <<rtVars, bundle, _types, _registry, CLASSES, factories, outputs>>

\* one iteration of the first loop: schema.buildDefinitions(); buildTypes(...)
GenBuildTypes ==
    /\ run.pc = "types"
    /\ \E d \in {buildDefinitions(SchemaAt(run.idx), _types, _registry)} :
          /\ _types' = d.types
          /\ _registry' = d.registry
          /\ IF d.exc # ""
             THEN /\ run' = Crashed(run, d.exc)
                  /\ UNCHANGED <<CLASSES, factories>>
             ELSE \E t \in {buildTypes(CaptureOf(run, SchemaAt(run.idx).version),
                                       d.types, d.registry, CLASSES, factories)} :
                     \E captured \in {WithCapture(run, SchemaAt(run.idx).version,
                                                  t.capture)} :
                        /\ CLASSES' = t.classes
                        /\ factories' = t.factories
                        /\ run' = IF t.exc # "" THEN Crashed(captured, t.exc)
                                  ELSE Advance(captured)
    /\ UNCHANGED <<rtVars, bundle, runs, outputs>>

\* one iteration of the second loop: buildFacade, make_factory, buildMethods
GenBuildFacade ==
    /\ run.pc = "facades"
    /\ LET schema == SchemaAt(run.idx)
           cls_name == schema.name \o FacadeSuffix
       IN  \E m \in {buildMethods(schema, _types, _registry)} :
           \E captured \in {WithCapture(run, schema.version,
                               MapPut(CaptureOf(run, schema.version), cls_name,
                                      [facade |-> schema.name,
                                       version |-> schema.version,
                                       methods |-> m.methods]))} :
              /\ _types' = m.types
              /\ factories' = make_factory(factories, cls_name)
              /\ IF m.exc # ""
                 THEN /\ run' = Crashed(captured, m.exc)
                      /\ UNCHANGED CLASSES
                 ELSE /\ run' = Advance(captured)
                      /\ CLASSES' = MapPut(CLASSES, schema.name,
                                           [kind |-> "facade", name |-> schema.name,
                                            version |-> schema.version])
    /\ UNCHANGED <<rtVars, bundle, _registry, runs, outputs>>

\* main after generate_facades: write_facades, write_definitions, write_client
GenEmit ==
    /\ run.pc = "emit"
    /\ outputs' = Append(outputs,
           [facades |-> write_facades(run.captures),
            definitions |-> write_definitions(run.captures, LastVersion(run.captures)),
            client |-> write_client(run.order, factories),
            registered |-> _registry])
    /\ run' = [run EXCEPT !.pc = "idle"]
    /\ UNCHANGED <<rtVars, bundle, _types, _registry, CLASSES, factories, runs>>

NextGen == GenStart \/ GenBuildTypes \/ GenBuildFacade \/ GenEmit

SpecGen == InitGen /\ [][NextGen]_vars

(***************************************************************************)
(* C8: two runs of the generator in succession on the same bundle, also    *)
(* within one process, register the same entities and emit identical       *)
(* artifacts.                                                              *)
(***************************************************************************)
C8_Idempotent ==
    \A i, j \in DOMAIN outputs : outputs[i] = outputs[j]

(***************************************************************************)
(* C9: an entry of the versioned registry, once registered for a (name,    *)
(* version) pair, is still there with the same content after every later   *)
(* step.                                                                   *)
(***************************************************************************)
C9_RegisteredNeverChanged ==
    [][\A n \in DOMAIN _registry : \A v \in DOMAIN _registry[n] :
          /\ n \in DOMAIN _registry'
          /\ v \in DOMAIN _registry'[n]
          /\ _registry'[n][v] = _registry[n][v]]_vars

(***************************************************************************)
(* C10: a definition that is array-shaped never gets a standalone object   *)
(* type: nothing is registered, compiled or emitted under its name.        *)
(***************************************************************************)
ArrayShaped ==
    UNION {{SchemaAt(i).definitions[j][1] : j \in
               {k \in DOMAIN SchemaAt(i).definitions :
                   SchemaAt(i).definitions[k][2].type = "array"}} : i \in DOMAIN bundle}

C10_NoTypeForArray ==
    \A n \in ArrayShaped :
        /\ n \notin DOMAIN _registry
        /\ n \notin DOMAIN CLASSES
        /\ \A v \in DOMAIN run.captures : n \notin DOMAIN run.captures[v]

(***************************************************************************)
(* C13: the shared definitions artifact of a run holds every object type   *)
(* registered from any schema of the bundle, each exactly once.            *)
(***************************************************************************)
C13_AllTypesInDefinitions ==
    \A i \in DOMAIN outputs :
        \A n \in DOMAIN outputs[i].registered :
            Cardinality({k \in DOMAIN outputs[i].definitions :
                            outputs[i].definitions[k].class = n}) = 1

(***************************************************************************)
(* C14: TypeRegistry.get returns the same placeholder for every lookup of  *)
(* a definition name, the two directions of _types being inverse; and the  *)
(* pass of buildDefinitions over a schema whose definitions A and B refer  *)
(* to each other ends with A and B registered, the field of each carrying  *)
(* the placeholder of the other.  (The pass is one step: DefinitionsLoop   *)
(* recurses on the position in the definitions, never along a reference.)  *)
(***************************************************************************)
PlaceholdersInverse ==
    /\ \A n \in DOMAIN _types.byName :
          /\ _types.byName[n] \in DOMAIN _types.byVar
          /\ _types.byVar[_types.byName[n]] = n
    /\ \A v \in DOMAIN _types.byVar :
          /\ _types.byVar[v] \in DOMAIN _types.byName
          /\ _types.byName[_types.byVar[v]] = v

LookupStable ==
    \A n \in DOMAIN _types.byName :
        /\ TypesGet(_types, n) = [types |-> _types, var |-> _types.byName[n]]
        /\ TypesGet(_types, DefinitionsPrefix \o n) =
              [types |-> _types, var |-> _types.byName[n]]

\* the schema defines A with a field that refers to B and B with one that refers to A
Cyclic(schema) ==
    /\ HasDefinition(schema, nA) /\ HasDefinition(schema, nB)
    /\ \E f \in DOMAIN Definition(schema, nA).properties :
          Definition(schema, nA).properties[f] = DefRef(nB)
    /\ \E f \in DOMAIN Definition(schema, nB).properties :
          Definition(schema, nB).properties[f] = DefRef(nA)

\* name is registered with a field that carries the placeholder of other
RegisteredWithRef(reg, types, name, other) ==
    /\ name \in DOMAIN reg
    /\ other \in DOMAIN types.byName
    /\ \A v \in DOMAIN reg[name] :
          \E k \in DOMAIN reg[name][v] :
              reg[name][v][k][2] = TypeVarT(types, types.byName[other])

C14_CyclicDefinitions ==
    /\ [](PlaceholdersInverse /\ LookupStable)
    /\ [][(run.pc = "types" /\ Cyclic(SchemaAt(run.idx)))
            => /\ run'.pc # "crashed"
               /\ RegisteredWithRef(_registry', _types', nA, nB)
               /\ RegisteredWithRef(_registry', _types', nB, nA)]_vars

C14_Witness ==
    /\ run.pc = "facades"
    /\ \E i \in DOMAIN bundle : Cyclic(SchemaAt(i))
    /\ RegisteredWithRef(_registry, _types, nA, nB)
    /\ RegisteredWithRef(_registry, _types, nB, nA)
    /\ PlaceholdersInverse

(***************************************************************************)
(* Specification of Schema.buildObject as a function of its node: a caller *)
(* hands it an object node and the name of the definition; the types it    *)
(* refers to are interned in _types.                                       *)
(***************************************************************************)
wA == <<"a">>
wM == <<"m">>
wZ == <<"z">>
OtherPattern == <<"a", ".", "*">>

IntegerProp == [type |-> "integer"]
StringProp == [type |-> "string"]
InlineObject == [type |-> "object", properties |-> (wZ :> IntegerProp)]
StringArray == [type |-> "array", items |-> StringProp]

\* the values of a property: scalar, reference, inline object, array
PropValues == {IntegerProp, DefRef(nB), InlineObject, StringArray}
PropMaps == UNION {[D -> PropValues] : D \in SUBSET {wA, wM}}

\* the patternProperties of a node: one wildcard pattern, one other pattern,
\* a wildcard pattern next to another pattern
PatternMaps ==
    { (WildcardKey :> StringProp),
      (WildcardKey :> DefRef(nB)),
      (WildcardKey :> StringArray),
      (OtherPattern :> StringProp),
      (WildcardKey :> StringProp @@ OtherPattern :> IntegerProp) }

ObjectNodes ==
    {[type |-> "object", properties |-> props] : props \in PropMaps}
    \cup {[type |-> "object", properties |-> props, additionalProperties |-> TRUE] :
            props \in PropMaps}
    \cup {[type |-> "object", properties |-> props, patternProperties |-> pprops] :
            props \in PropMaps, pprops \in PatternMaps}

InitObject ==
    /\ CLIENTS = <<>>
    /\ rtOp = [op |-> "idle"]
    /\ retCls = Declared
    /\ calls = NoCalls
    /\ GeneratorNotRun

DoBuildObject ==
    \E node \in ObjectNodes, name \in {nA} :
        /\ rtOp.op = "idle"
        /\ \E r \in {buildObject(node, name, _types)} :
              /\ rtOp' = [op |-> "buildObject", node |-> node, name |-> name,
                          exc |-> r.exc, struct |-> r.val]
              /\ _types' = r.types
        /\ UNCHANGED <<CLIENTS, retCls, calls, bundle, _registry, CLASSES, factories,
                       run, runs, outputs>>

NextObject == DoBuildObject \/ ReturnToCaller

SpecObject == InitObject /\ [][NextObject]_vars

\* the patterns of the node of the call in progress
PatternsOfCall ==
    IF "patternProperties" \in DOMAIN rtOp.node THEN rtOp.node.patternProperties
    ELSE EmptyMap

\* the type a value schema stands for
ValueSchemaType(schema) ==
    IF "ref" \in DOMAIN schema THEN RefT(referenceName(schema.ref))
    ELSE IF schema.type = "array"
    THEN SeqT(IF "ref" \in DOMAIN schema.items THEN RefT(referenceName(schema.items.ref))
              ELSE SCHEMA_TO_PYTHON[schema.items.type])
    ELSE SCHEMA_TO_PYTHON[schema.type]

(***************************************************************************)
(* C11: buildObject on a node with exactly one pattern, keyed by the       *)
(* wildcard, ends its field list with a Mapping over that pattern's value  *)
(* schema; on a node with more than one pattern it raises and yields no    *)
(* field list.                                                             *)
(***************************************************************************)
C11_PatternProperties ==
    rtOp.op = "buildObject" =>
        /\ (DOMAIN PatternsOfCall = {WildcardKey}) =>
              /\ rtOp.exc = ""
              /\ rtOp.struct # <<>>
              /\ rtOp.struct[Len(rtOp.struct)] =
                    <<rtOp.name, MapT(ValueSchemaType(PatternsOfCall[WildcardKey]))>>
        /\ (Cardinality(DOMAIN PatternsOfCall) > 1) =>
              /\ rtOp.exc # ""
              /\ rtOp.struct = <<>>

(***************************************************************************)
(* C12: the field list buildObject returns is sorted by wire name, for     *)
(* every node, also one with an inline object whose fields are hoisted or  *)
(* with a wildcard-pattern Mapping field.                                  *)
(***************************************************************************)
C12_FieldsSorted ==
    (rtOp.op = "buildObject" /\ rtOp.exc = "") =>
        \A i, j \in DOMAIN rtOp.struct :
            i < j => ~StrLess(rtOp.struct[j][1], rtOp.struct[i][1])

====
